---- MODULE Spec2Model ----
(***************************************************************************)
(* State-machine model of the RAG chat front end.                          *)
(*                                                                         *)
(* Two components are modelled: App (src/unnamed/part_000 and the first    *)
(* component of src/src/App.tsx, which have the same handlers) and Index   *)
(* (second component of src/src/App.tsx, a demo that answers from a        *)
(* timer).  The variable `variant` says which one is mounted; the          *)
(* component state (useState cells) is shared by name.                     *)
(*                                                                         *)
(* Text is a sequence of fragments: a typed character is a one-character   *)
(* fragment, a string literal of the source is a single fragment.          *)
(* Every handler runs to its first await atomically (single-threaded UI    *)
(* event loop); the continuation after an await is a separate action that  *)
(* reads the values its closure captured.                                  *)
(***************************************************************************)
EXTENDS Integers, Sequences, FiniteSets, TLC

VARIABLES
    variant,        \* "App" | "Index": the mounted component
    message,        \* useState('')            input text
    isLoading,      \* useState(false)
    messages,       \* useState<Message[]>([]) conversation store
    selectedFile,   \* useState<File|null>     file shown in the chip
    pdfPath,        \* useState<string|null>   attachment reference (App)
    messageType,    \* useState<mode|undefined> (App)
    sessionId,      \* useState(getOrCreateSessionId()) (App)
    storage,        \* localStorage["chat_session_id"]
    now,            \* Date.now()
    requests,       \* chat fetches (App) / timers (Index), in send order,
                    \* each with the closure of the sendMessage call
    uploads,        \* upload fetches, in selection order, with closures
    owner,          \* history: owner[i] = index of the send that appended messages[i]
    lastSettled,    \* history: index of the upload that settled last (0: none)
    returned,       \* history: values getOrCreateSessionId returned since the last clear
    writes,         \* history: localStorage.setItem calls since the last clear
    overwrote,      \* history: setItem was called while the key was present
    ev              \* the last step seen from outside: whether it invoked
                    \* sendMessage or handleFileUpload (or was some other step),
                    \* the file it was given, the chat request body it sent and
                    \* the title of the toast it showed

compVars == <<message, isLoading, messages, selectedFile, pdfPath, messageType>>
sessVars == <<sessionId, storage, returned, writes, overwrote>>
netVars  == <<requests, uploads, owner, lastSettled>>
vars == <<variant, message, isLoading, messages, selectedFile, pdfPath,
          messageType, sessionId, storage, now, requests, uploads,
          owner, lastSettled, returned, writes, overwrote, ev>>

----------------------------------------------------------------------------
(* Bounds of the model *)
MaxSends   == 2     \* accepted sendMessage calls
MaxUploads == 2     \* accepted (PDF) file selections
MaxClock   == 1     \* clock readings after the start of the run

(* Program constants *)
TimeoutDelay == 1200

----------------------------------------------------------------------------
(* Values *)
Null      == "<null>"
Undefined == "<undefined>"
Modes     == {"pdf", "web", "llm"}
\* the tiles clicked in the runs explored; 'web' and 'llm' take the same
\* branch of handleSuggestion
Tiles     == {"pdf", "web"}
UUIDs     == {"uuid-1", "uuid-2"}
Paths     == {"/tmp/abc123.pdf", "/tmp/def456.pdf"}
NoFile    == "<no file>"
Files     == {"notes.pdf", "fake.pdf"}
FileType(f) ==
    CASE f = "notes.pdf" -> "application/pdf"
      [] f = "fake.pdf"  -> "text/plain"
      [] OTHER           -> Undefined

FileExt(f) ==
    CASE f = "notes.pdf" -> ".pdf"
      [] f = "fake.pdf"  -> ".pdf"
      [] OTHER           -> ""

Whitespace == {" ", "\t", "\n"}
Texts   == {<< >>, <<" ">>, <<" ", "a">>}
Replies == {<< >>, <<"o", "k">>}

FallbackReply == <<"No response received.">>

ToastInvalid      == "Invalid file type"
ToastUploaded     == "PDF uploaded"
ToastUploadFailed == "PDF upload failed"
ToastSendFailed   == "Failed to send message"
ToastIndexUploaded == "PDF uploaded successfully"


----------------------------------------------------------------------------
(* JavaScript primitives used by the handlers *)

\* truthiness of a state cell holding a string, null or undefined
Truthy(v) == v \notin {Null, Undefined, ""}

RECURSIVE TrimStart(_)
TrimStart(s) ==
    IF s # << >> /\ Head(s) \in Whitespace THEN TrimStart(Tail(s)) ELSE s

RECURSIVE TrimEnd(_)
TrimEnd(s) ==
    IF s # << >> /\ s[Len(s)] \in Whitespace
    THEN TrimEnd(SubSeq(s, 1, Len(s) - 1))
    ELSE s

\* String.prototype.trim
Trim(s) == TrimEnd(TrimStart(s))

\* truthiness of a text: the empty string is falsy
TruthyText(s) == s # << >>

Digit(d) ==
    CASE d = 0 -> "0" [] d = 1 -> "1" [] d = 2 -> "2" [] d = 3 -> "3"
      [] d = 4 -> "4" [] d = 5 -> "5" [] d = 6 -> "6" [] d = 7 -> "7"
      [] d = 8 -> "8" [] d = 9 -> "9"

\* Number.prototype.toString (decimal), for Date.now().toString()
RECURSIVE toString(_)
toString(n) ==
    IF n < 10 THEN <<Digit(n)>> ELSE Append(toString(n \div 10), Digit(n % 10))

\* JSON.stringify of the chat payload: the key/value pairs in insertion
\* order; a key whose value is undefined is left out
JSONStringify(payload) ==
    LET pair(k) == IF payload[k] = Undefined THEN << >> ELSE << <<k, payload[k]>> >>
    IN  << <<"session_id", payload.session_id>>,
           <<"User_message", payload.User_message>> >> \o pair("pdf_path")

\* [...prev, m]
SpreadPrepend(prev, m) == <<m>> \o prev

SpreadAppend(prev, m) == prev \o <<m>>

----------------------------------------------------------------------------
(* Session identity: getOrCreateSessionId against a storage cell.  `fresh` *)
(* is the value crypto.randomUUID() produces if it is called.              *)
getOrCreateSessionIdAlways(store, fresh) ==
    [ret |-> fresh, store |-> fresh, wrote |-> TRUE]

getOrCreateSessionId(store, fresh) ==
    IF ~Truthy(store)
    THEN [ret |-> fresh, store |-> fresh, wrote |-> TRUE]
    ELSE [ret |-> store, store |-> store, wrote |-> FALSE]

----------------------------------------------------------------------------
(* What the network can deliver *)
NoResponse ==
    [fetch |-> "pending", ok |-> FALSE, json |-> "none", has |-> FALSE, val |-> << >>]
NetworkError ==
    [fetch |-> "rejects", ok |-> FALSE, json |-> "none", has |-> FALSE, val |-> << >>]

\* /chat: val is the reply field of the JSON object, has says it is present
ChatResponses ==
    {NetworkError}
    \cup {[fetch |-> "resolves", ok |-> FALSE, json |-> "invalid", has |-> FALSE, val |-> << >>]}
    \cup {[fetch |-> "resolves", ok |-> o, json |-> "object", has |-> FALSE, val |-> << >>]
            : o \in BOOLEAN}
    \cup {[fetch |-> "resolves", ok |-> TRUE, json |-> "object", has |-> TRUE, val |-> r]
            : r \in Replies}

NoUploadResponse ==
    [fetch |-> "pending", ok |-> FALSE, json |-> "none", pdf_path |-> Undefined]
UploadNetworkError ==
    [fetch |-> "rejects", ok |-> FALSE, json |-> "none", pdf_path |-> Undefined]

\* /upload_pdf
UploadResponses ==
    {UploadNetworkError}
    \cup {[fetch |-> "resolves", ok |-> FALSE, json |-> "object", pdf_path |-> Undefined]}
    \cup {[fetch |-> "resolves", ok |-> TRUE, json |-> "invalid", pdf_path |-> Undefined]}
    \cup {[fetch |-> "resolves", ok |-> TRUE, json |-> "object", pdf_path |-> p]
            : p \in Paths}

\* uploadPDF(file) once its fetch has settled with resp: throws or returns
\* data.pdf_path
uploadPDF(resp) ==
    IF resp.fetch = "rejects" THEN [threw |-> TRUE, value |-> Undefined]
    ELSE IF ~resp.ok THEN [threw |-> TRUE, value |-> Undefined]
    ELSE IF resp.json = "invalid" THEN [threw |-> TRUE, value |-> Undefined]
    ELSE [threw |-> FALSE, value |-> resp.pdf_path]

\* data.reply || 'No response received.'
replyContentNullish(resp) ==
    IF resp.has THEN resp.val ELSE FallbackReply

replyContent(resp) ==
    IF resp.has /\ TruthyText(resp.val) THEN resp.val ELSE FallbackReply

chatTryRequiresReply(resp) ==
    IF resp.fetch = "rejects" THEN [threw |-> TRUE, content |-> << >>]
    ELSE IF resp.json = "invalid" \/ ~resp.has THEN [threw |-> TRUE, content |-> << >>]
    ELSE [threw |-> FALSE, content |-> resp.val]

\* the try block of sendMessage once fetch has settled with resp: either
\* the catch branch is taken or an assistant message with this content is
\* appended
chatTry(resp) ==
    IF resp.fetch = "rejects" THEN [threw |-> TRUE, content |-> << >>]
    ELSE IF resp.json = "invalid" THEN [threw |-> TRUE, content |-> << >>]
    ELSE [threw |-> FALSE, content |-> replyContent(resp)]


----------------------------------------------------------------------------
(* Messages *)

\* { id: Date.now().toString(), type: 'user', content: message,
\*   timestamp: new Date(), source: messageType }
userMessageTrimmed(text, mode, t) ==
    [id |-> toString(t), type |-> "user", content |-> Trim(text),
     timestamp |-> t, source |-> mode]

userMessage(text, mode, t) ==
    [id |-> toString(t), type |-> "user", content |-> text,
     timestamp |-> t, source |-> mode]

\* { id: (Date.now() + 1).toString(), type: 'assistant', content: ...,
\*   timestamp: new Date(), source: messageType }
assistantMessage(content, mode, t) ==
    [id |-> toString(t + 1), type |-> "assistant", content |-> content,
     timestamp |-> t, source |-> mode]

\* `Here's a response (${messageType || 'normal'}) to "${message}"${selectedFile
\*   ? ` with file ${selectedFile.name}` : ''}.`
indexReply(mode, text, file) ==
    <<"Here's a response (", IF Truthy(mode) THEN mode ELSE "normal", ") to \"">>
    \o text \o <<"\"">>
    \o (IF Truthy(file) THEN <<" with file ", file>> ELSE << >>)
    \o <<".">>

\* `messageType` read by sendMessage after its await: the const of the
\* render in which the call was made (captured), not the state cell
messageTypeFromCell(captured, cell) == cell

messageTypeAfterAwait(captured, cell) == captured

\* the early return of sendMessage: !message.trim() && !pdfPath
sendRefusedNoTrim(text, ref) == ~TruthyText(text) /\ ~Truthy(ref)

sendRefused(text, ref) == ~TruthyText(Trim(text)) /\ ~Truthy(ref)

\* disabled={!message.trim() && !pdfPath} of the send button
sendDisabled(text, ref) == ~TruthyText(Trim(text)) /\ ~Truthy(ref)

\* file && file.type === 'application/pdf'
acceptsFileByExtension(file) == file # NoFile /\ FileExt(file) = ".pdf"

acceptsFile(file) == file # NoFile /\ FileType(file) = "application/pdf"

\* the payload object of sendMessage
chatPayloadNoPdf(sid, text, ref) ==
    [session_id |-> sid, User_message |-> text, pdf_path |-> Null]

chatPayload(sid, text, ref) ==
    [session_id |-> sid, User_message |-> text, pdf_path |-> ref]

----------------------------------------------------------------------------
Other   == "<other>"
NoBody  == << >>
NoToast == "<no toast>"
Event(op, file, body, title) ==
    [op |-> op, file |-> file, body |-> body, toast |-> title]

(* Initial state: the component has mounted.  For App the first render    *)
(* has called getOrCreateSessionId against a storage that held `before`;   *)
(* `fresh` is what crypto.randomUUID() would return.                       *)
Mounted(v, before, fresh) ==
    /\ variant = v
    /\ message = << >>
    /\ isLoading = FALSE
    /\ messages = << >>
    /\ selectedFile = Null
    /\ pdfPath = Null
    /\ messageType = Undefined
    /\ now = 0
    /\ requests = << >>
    /\ uploads = << >>
    /\ owner = << >>
    /\ lastSettled = 0
    /\ ev = Event(Other, NoFile, NoBody, NoToast)
    /\ IF v = "App"
       THEN LET r == getOrCreateSessionId(before, fresh)
            IN  /\ sessionId = r.ret
                /\ storage = r.store
                /\ returned = {r.ret}
                /\ writes = (IF r.wrote THEN 1 ELSE 0)
                /\ overwrote = (r.wrote /\ Truthy(before))
       ELSE /\ sessionId = Null
            /\ storage = Null
            /\ returned = {}
            /\ writes = 0
            /\ overwrote = FALSE

\* The chat flows never read the storage after the mount, so they are
\* explored from a first visit whose generated id is uuid-1 (the ids are
\* interchangeable).
Init ==
    \/ Mounted("App", Null, "uuid-1")
    \/ Mounted("Index", Null, "uuid-1")

\* Every storage content an App can be mounted on.
InitSession ==
    \E before \in {Null} \cup UUIDs : \E fresh \in UUIDs :
        Mounted("App", before, fresh)

\* A render of App: useState(getOrCreateSessionId()) evaluates the call on
\* every render and keeps the first result.
Render ==
    \E fresh \in UUIDs :
      LET r == getOrCreateSessionId(storage, fresh)
      IN  /\ storage' = r.store
          /\ returned' = returned \cup {r.ret}
          /\ writes' = writes + (IF r.wrote THEN 1 ELSE 0)
          /\ overwrote' = (overwrote \/ (r.wrote /\ Truthy(storage)))
          /\ UNCHANGED sessionId

Rerender == IF variant = "App" THEN Render ELSE UNCHANGED sessVars


Pending(r) == r.resp.fetch = "pending"

----------------------------------------------------------------------------
(* Handlers of App *)

\* onChange={e => setMessage(e.target.value)} (both components)
setMessage(t) ==
    /\ t # message
    /\ message' = t
    /\ Rerender
    /\ ev' = Event(Other, NoFile, NoBody, NoToast)
    /\ UNCHANGED <<variant, isLoading, messages, selectedFile, pdfPath,
                   messageType, now, netVars>>

\* a suggestion tile: 'pdf' opens the file picker, the others set the mode
handleSuggestion(type) ==
    /\ variant = "App"
    /\ IF type = "pdf"
       THEN UNCHANGED <<messageType, sessVars>>
       ELSE messageType' = type /\ Rerender
    /\ ev' = Event(Other, NoFile, NoBody, NoToast)
    /\ UNCHANGED <<variant, message, isLoading, messages, selectedFile,
                   pdfPath, now, netVars>>

\* onChange of the file input, up to `await uploadPDF(file)`
handleFileUpload(file) ==
    /\ variant = "App"
    /\ IF acceptsFile(file)
       THEN /\ selectedFile' = file
            /\ messageType' = "pdf"
            /\ uploads' = Append(uploads, [file |-> file, resp |-> NoUploadResponse])
            /\ ev' = Event("handleFileUpload", file, NoBody, NoToast)
            /\ Rerender
       ELSE /\ ev' = Event("handleFileUpload", file, NoBody, ToastInvalid)
            /\ UNCHANGED <<selectedFile, messageType, uploads, sessVars>>
    /\ UNCHANGED <<variant, message, isLoading, messages, pdfPath, now,
                   requests, owner, lastSettled>>

\* handleFileUpload after `await uploadPDF(file)`: the upload of uploads[k]
\* settles with resp
handleFileUploadResumed(k, resp) ==
    /\ variant = "App"
    /\ Pending(uploads[k])
    /\ LET u == uploadPDF(resp)
       IN  IF ~u.threw
           THEN /\ pdfPath' = u.value
                /\ ev' = Event(Other, uploads[k].file, NoBody,
                               ToastUploaded)
           ELSE /\ ev' = Event(Other, uploads[k].file, NoBody,
                               ToastUploadFailed)
                /\ pdfPath' = Null
    /\ uploads' = [uploads EXCEPT ![k].resp = resp]
    /\ lastSettled' = k
    /\ Rerender
    /\ UNCHANGED <<variant, message, isLoading, messages, selectedFile,
                   messageType, now, requests, owner>>

\* sendMessage up to `await fetch(.../chat)`; via says whether the send
\* button was clicked (possible only while it is enabled) or Enter was
\* pressed in the input
sendMessage(via) ==
    /\ variant = "App"
    /\ via = "click" => ~sendDisabled(message, pdfPath)
    /\ IF sendRefused(message, pdfPath)
       THEN /\ ev' = Event("sendMessage", NoFile, NoBody, NoToast)
            /\ UNCHANGED <<compVars, sessVars, requests, owner>>
       ELSE /\ isLoading' = TRUE
            /\ requests' = Append(requests, [source |-> messageType, resp |-> NoResponse])
            /\ ev' = Event("sendMessage", NoFile,
                           JSONStringify(chatPayload(sessionId, message, pdfPath)),
                           NoToast)
            /\ messages' = SpreadAppend(messages, userMessage(message, messageType, now))
            /\ owner' = Append(owner, Len(requests) + 1)
            /\ message' = << >>
            /\ messageType' = Undefined
            /\ Rerender
            /\ UNCHANGED <<selectedFile, pdfPath>>
    /\ UNCHANGED <<variant, now, uploads, lastSettled>>

\* sendMessage after `await fetch(.../chat)`: the request of requests[k]
\* settles with resp
sendMessageResumedCorrelated(k, resp) ==
    /\ variant = "App"
    /\ Pending(requests[k])
    /\ LET t == chatTry(resp)
           p == CHOOSE i \in DOMAIN messages :
                    owner[i] = k /\ messages[i].type = "user"
           m == assistantMessage(t.content,
                    messageTypeAfterAwait(requests[k].source, messageType), now)
       IN  IF ~t.threw
           THEN /\ messages' = SubSeq(messages, 1, p) \o <<m>>
                                  \o SubSeq(messages, p + 1, Len(messages))
                /\ owner' = SubSeq(owner, 1, p) \o <<k>>
                                  \o SubSeq(owner, p + 1, Len(owner))
                /\ ev' = Event(Other, NoFile, NoBody, NoToast)
           ELSE /\ ev' = Event(Other, NoFile, NoBody, ToastSendFailed)
                /\ UNCHANGED <<messages, owner>>
    /\ isLoading' = FALSE
    /\ requests' = [requests EXCEPT ![k].resp = resp]
    /\ Rerender
    /\ UNCHANGED <<variant, message, selectedFile, pdfPath, messageType, now,
                   uploads, lastSettled>>

sendMessageResumed(k, resp) ==
    /\ variant = "App"
    /\ Pending(requests[k])
    /\ LET t == chatTry(resp)
       IN  IF ~t.threw
           THEN /\ messages' = SpreadAppend(messages,
                                  assistantMessage(t.content,
                                      messageTypeAfterAwait(requests[k].source, messageType),
                                      now))
                /\ owner' = Append(owner, k)
                /\ ev' = Event(Other, NoFile, NoBody, NoToast)
           ELSE /\ ev' = Event(Other, NoFile, NoBody, ToastSendFailed)
                /\ UNCHANGED <<messages, owner>>
    /\ isLoading' = FALSE
    /\ requests' = [requests EXCEPT ![k].resp = resp]
    /\ Rerender
    /\ UNCHANGED <<variant, message, selectedFile, pdfPath, messageType, now,
                   uploads, lastSettled>>

\* onClick={() => setSelectedFile(null)} of the Remove button, which is
\* rendered only while selectedFile is set (both components)
removeFileAndReference ==
    /\ Truthy(selectedFile)
    /\ selectedFile' = Null
    /\ pdfPath' = Null
    /\ Rerender
    /\ ev' = Event(Other, NoFile, NoBody, NoToast)
    /\ UNCHANGED <<variant, message, isLoading, messages, messageType,
                   now, netVars>>

removeFile ==
    /\ Truthy(selectedFile)
    /\ selectedFile' = Null
    /\ Rerender
    /\ ev' = Event(Other, NoFile, NoBody, NoToast)
    /\ UNCHANGED <<variant, message, isLoading, messages, pdfPath, messageType,
                   now, netVars>>

\* the user clears the site's storage
clearStorage ==
    /\ variant = "App"
    /\ Truthy(storage)
    /\ storage' = Null
    /\ returned' = {}
    /\ writes' = 0
    /\ ev' = Event(Other, NoFile, NoBody, NoToast)
    /\ UNCHANGED <<variant, compVars, sessionId, overwrote, now, netVars>>

\* the millisecond clock advances.  The readings explored are the first
\* MaxClock milliseconds of the run and, for Index, the first MaxClock
\* milliseconds after a timer armed in them is due.
ClockReadings ==
    (0..MaxClock)
    \cup (IF variant = "Index" THEN TimeoutDelay..(TimeoutDelay + MaxClock) ELSE {})

tick(d) ==
    /\ now + d \in ClockReadings
    /\ now' = now + d
    /\ ev' = Event(Other, NoFile, NoBody, NoToast)
    /\ UNCHANGED <<variant, compVars, sessVars, netVars>>

----------------------------------------------------------------------------
(* Handlers of Index *)

\* onChange of the file input: nothing is uploaded
Index_handleFileUpload(file) ==
    /\ variant = "Index"
    /\ IF acceptsFile(file)
       THEN /\ selectedFile' = file
            /\ ev' = Event("handleFileUpload", file, NoBody, ToastIndexUploaded)
       ELSE /\ ev' = Event("handleFileUpload", file, NoBody, ToastInvalid)
            /\ UNCHANGED selectedFile
    /\ UNCHANGED <<variant, message, isLoading, messages, pdfPath, messageType,
                   sessVars, now, netVars>>

\* sendMessage(selectedFile ? 'pdf' : undefined): appends the user message
\* and arms a timer that will append the reply
Index_sendMessage(via) ==
    /\ variant = "Index"
    /\ via = "click" => ~sendDisabled(message, selectedFile)
    /\ IF sendRefused(message, selectedFile)
       THEN UNCHANGED <<compVars, requests, owner>>
       ELSE LET mode == IF Truthy(selectedFile) THEN "pdf" ELSE Undefined
            IN  /\ messages' = SpreadAppend(messages, userMessage(message, mode, now))
                /\ owner' = Append(owner, Len(requests) + 1)
                /\ isLoading' = TRUE
                /\ requests' = Append(requests,
                      [text |-> message, source |-> mode, file |-> selectedFile,
                       due |-> now + TimeoutDelay, resp |-> NoResponse])
                /\ message' = << >>
                /\ selectedFile' = Null
                /\ UNCHANGED <<pdfPath, messageType>>
    /\ ev' = Event("sendMessage", NoFile, NoBody, NoToast)
    /\ UNCHANGED <<variant, sessVars, now, uploads, lastSettled>>

\* the setTimeout callback of the k-th send; timers of equal delay run in
\* the order they were armed
Index_timeout(k) ==
    /\ variant = "Index"
    /\ Pending(requests[k])
    /\ \A j \in 1..(k - 1) : ~Pending(requests[j])
    /\ requests[k].due <= now
    /\ LET r == requests[k]
           content == indexReply(r.source, r.text, r.file)
       IN  /\ messages' = SpreadAppend(messages, assistantMessage(content, r.source, now))
           /\ requests' = [requests EXCEPT ![k].resp =
                 [fetch |-> "resolves", ok |-> TRUE, json |-> "object",
                  has |-> TRUE, val |-> content]]
    /\ owner' = Append(owner, k)
    /\ isLoading' = FALSE
    /\ ev' = Event(Other, NoFile, NoBody, NoToast)
    /\ UNCHANGED <<variant, message, selectedFile, pdfPath, messageType,
                   sessVars, now, uploads, lastSettled>>

----------------------------------------------------------------------------
----------------------------------------------------------------------------
(* The runs explored.  The handlers above are unbounded; what bounds a run *)
(* is how often the user sends, selects a file and how far the clock runs. *)
SendAllowed(text, ref, sends) ==
    sendRefused(text, ref) \/ Len(requests) < sends

SelectAllowed(file, selects) ==
    acceptsFile(file) => Len(uploads) < selects

Handlers(sends, selects) ==
    \/ \E t \in Texts : setMessage(t)
    \/ \E type \in Tiles : handleSuggestion(type)
    \/ \E file \in Files \cup {NoFile} :
          SelectAllowed(file, selects) /\ handleFileUpload(file)
    \/ \E k \in DOMAIN uploads : \E resp \in UploadResponses :
          handleFileUploadResumed(k, resp)
    \/ \E via \in {"click", "enter"} :
          SendAllowed(message, pdfPath, sends) /\ sendMessage(via)
    \/ \E k \in DOMAIN requests : \E resp \in ChatResponses :
          sendMessageResumed(k, resp)
    \/ removeFile
    \/ \E file \in Files \cup {NoFile} :
          SelectAllowed(file, selects) /\ Index_handleFileUpload(file)
    \/ \E via \in {"click", "enter"} :
          SendAllowed(message, selectedFile, sends) /\ Index_sendMessage(via)
    \/ \E k \in DOMAIN requests : Index_timeout(k)

\* Several sends around one upload.
Next ==
    \/ Handlers(MaxSends, 1)
    \/ variant = "Index" /\ \E d \in {1, TimeoutDelay} : tick(d)

Spec == Init /\ [][Next]_vars

\* The session identity: the handlers that make App render again while no
\* chat request is sent, and clears of the storage.
NextSession ==
    \/ \E t \in Texts : setMessage(t)
    \/ \E type \in Tiles : handleSuggestion(type)
    \/ \E file \in Files \cup {NoFile} :
          SelectAllowed(file, 1) /\ handleFileUpload(file)
    \/ \E k \in DOMAIN uploads : \E resp \in UploadResponses :
          handleFileUploadResumed(k, resp)
    \/ removeFile
    \/ clearStorage

SpecSession == InitSession /\ [][NextSession]_vars

\* Several uploads around one send.
NextUploads ==
    \/ Handlers(1, MaxUploads)
    \/ variant = "Index" /\ \E d \in {1, TimeoutDelay} : tick(d)

SpecUploads == Init /\ [][NextUploads]_vars

\* Sends and reply arrivals against a running millisecond clock: a message
\* takes its id from the reading of Date.now() at the moment it is created.
NextClock ==
    \/ \E t \in Texts : setMessage(t)
    \/ \E via \in {"click", "enter"} :
          SendAllowed(message, pdfPath, MaxSends) /\ sendMessage(via)
    \/ \E k \in DOMAIN requests : \E resp \in ChatResponses :
          sendMessageResumed(k, resp)
    \/ \E via \in {"click", "enter"} :
          SendAllowed(message, selectedFile, MaxSends) /\ Index_sendMessage(via)
    \/ \E k \in DOMAIN requests : Index_timeout(k)
    \/ \E d \in {1, TimeoutDelay} : tick(d)

SpecClock == Init /\ [][NextClock]_vars


----------------------------------------------------------------------------
(* Vocabulary of the properties *)

\* the positions of the messages the k-th send appended
Owned(k) == {i \in DOMAIN messages : owner[i] = k}

\* the chat request failed: a network error or a non-success HTTP status
ChatFailed(resp) ==
    resp.fetch = "rejects" \/ (resp.fetch = "resolves" /\ ~resp.ok)

\* the chat request succeeded: a success status with a JSON object as body
ChatSucceeded(resp) ==
    resp.fetch = "resolves" /\ resp.ok /\ resp.json = "object"

UploadFailed(resp) ==
    resp.fetch = "rejects" \/ (resp.fetch = "resolves" /\ ~resp.ok)

UploadSucceeded(resp) ==
    resp.fetch = "resolves" /\ resp.ok /\ resp.json = "object"

\* blank after trimming: nothing but whitespace
IsBlank(text) == \A i \in DOMAIN text : text[i] \in Whitespace

\* the mode a send is invoked with
CurrentMode ==
    IF variant = "App" THEN messageType
    ELSE IF selectedFile # Null THEN "pdf" ELSE Undefined

\* this step is an accepted send
SendStep == Len(requests') = Len(requests) + 1

\* this step settles the k-th chat request / the k-th upload
ChatSettles(k) == Pending(requests[k]) /\ ~Pending(requests'[k])
UploadSettles(k) == Pending(uploads[k]) /\ ~Pending(uploads'[k])

----------------------------------------------------------------------------
(* C1: a send whose chat request fails (network error or non-success       *)
(* status) leaves exactly one message of that send in the store, its user  *)
(* message; no assistant message is appended for it.                       *)
C1_FailedSendKeepsOnlyUserMessage ==
    \A k \in DOMAIN requests :
        ChatFailed(requests[k].resp) =>
            /\ Cardinality(Owned(k)) = 1
            /\ \A i \in Owned(k) : messages[i].type = "user"

(* C2: a send with non-blank text appends, in the step of the send itself, *)
(* exactly one message: a user message with that text and the current mode; *)
(* the request of the send is still unsettled after that step.             *)
C2_UserEchoIsSynchronous ==
    [][(ev'.op = "sendMessage" /\ ~IsBlank(message)) =>
          /\ SendStep
          /\ Len(messages') = Len(messages) + 1
          /\ SubSeq(messages', 1, Len(messages)) = messages
          /\ messages'[Len(messages')].type = "user"
          /\ messages'[Len(messages')].content = message
          /\ messages'[Len(messages')].source = CurrentMode
          /\ owner'[Len(messages')] = Len(requests')
          /\ Pending(requests'[Len(requests')])]_vars

C2_Witness ==
    /\ ev.op = "sendMessage"
    /\ Len(messages) = 1
    /\ messages[1].type = "user"
    /\ messages[1].content = <<" ", "a">>
    /\ messages[1].source = "web"
    /\ Pending(requests[1])

(* C3: a send whose chat request succeeds has exactly two messages in the  *)
(* store, its user message at an earlier position than its assistant       *)
(* message, whatever other sends appended in between.                      *)
C3_SuccessfulSendAddsUserThenAssistant ==
    \A k \in DOMAIN requests :
        ChatSucceeded(requests[k].resp) =>
            \E i, j \in DOMAIN messages :
                /\ i < j
                /\ Owned(k) = {i, j}
                /\ messages[i].type = "user"
                /\ messages[j].type = "assistant"

C3_Witness ==
    /\ variant = "App"
    /\ Len(requests) = 2
    /\ ChatSucceeded(requests[1].resp)
    /\ ChatSucceeded(requests[2].resp)
    /\ owner = <<1, 2, 2, 1>>

(* C4: sendMessage invoked with blank text and no attachment reference     *)
(* changes neither the store, the input text, the mode nor the loading     *)
(* flag and sends no chat request; the send button is disabled exactly    *)
(* when the text is blank and no attachment reference is set.              *)
C4_BlankSendIsNoOp ==
    [][variant = "App" =>
          /\ sendDisabled(message, pdfPath) <=> (IsBlank(message) /\ pdfPath = Null)
          /\ (ev'.op = "sendMessage" /\ IsBlank(message) /\ pdfPath = Null) =>
                /\ UNCHANGED <<messages, message, messageType, isLoading, requests>>
                /\ ev'.body = NoBody]_vars

C4_Witness ==
    /\ variant = "App"
    /\ ev.op = "sendMessage"
    /\ ev.body = NoBody
    /\ message = <<" ">>
    /\ pdfPath = Null
    /\ messages = << >>
    /\ requests = << >>

(* C5: selecting a file that is not a PDF, or no file, starts no upload    *)
(* and leaves the attachment reference (and the rest of the component      *)
(* state) as it was; the invalid-file-type notice is shown.                *)
C5_NonPdfSelectionIsRejected ==
    [][(variant = "App" /\ ev'.op = "handleFileUpload"
          /\ (ev'.file = NoFile \/ FileType(ev'.file) # "application/pdf")) =>
          /\ uploads' = uploads
          /\ pdfPath' = pdfPath
          /\ UNCHANGED <<compVars, netVars>>
          /\ ev'.toast = ToastInvalid]_vars

C5_Witness ==
    /\ variant = "App"
    /\ ev.op = "handleFileUpload"
    /\ ev.file = "fake.pdf"
    /\ ev.toast = ToastInvalid
    /\ pdfPath \in Paths


(* C6: when an upload settles with a network error or a non-success        *)
(* status, then right afterwards the attachment reference is null, the     *)
(* upload-failure notice has been shown and no file is displayed as        *)
(* selected.                                                               *)
C6_FailedUploadClearsSelection ==
    [][\A k \in DOMAIN uploads :
          (UploadSettles(k) /\ UploadFailed(uploads'[k].resp)) =>
              /\ pdfPath' = Null
              /\ ev'.toast = ToastUploadFailed
              /\ selectedFile' = Null]_vars

(* C7: an accepted send clears the input text, resets the mode and leaves  *)
(* the attachment reference alone; if the upload that settled last         *)
(* succeeded with reference p, the request body of the send is             *)
(* { session_id: <the page's id>, User_message: <the text at send time>,   *)
(*   pdf_path: p }.                                                        *)
C7_SendKeepsAttachmentReference ==
    [][(variant = "App" /\ SendStep) =>
          /\ message' = << >>
          /\ messageType' = Undefined
          /\ pdfPath' = pdfPath
          /\ (lastSettled # 0 /\ UploadSucceeded(uploads[lastSettled].resp)) =>
                ev'.body = << <<"session_id", sessionId>>,
                              <<"User_message", message>>,
                              <<"pdf_path", uploads[lastSettled].resp.pdf_path>> >>]_vars

C7_Witness ==
    /\ variant = "App"
    /\ Len(requests) = 2
    /\ ev.op = "sendMessage"
    /\ ev.body = << <<"session_id", "uuid-1">>,
                    <<"User_message", <<" ", "a">> >>,
                    <<"pdf_path", "/tmp/abc123.pdf">> >>
    /\ pdfPath = "/tmp/abc123.pdf"
    /\ message = << >>
    /\ messageType = Undefined

(* C8: between two clears of the storage every call of                     *)
(* getOrCreateSessionId returns the same string, the key is written at     *)
(* most once, and it is never written while it is present.                 *)
C8_SessionIdIsStable ==
    /\ Cardinality(returned) <= 1
    /\ writes <= 1
    /\ ~overwrote
    /\ Truthy(storage) => returned \subseteq {storage}

C8_Witness ==
    /\ writes = 1
    /\ returned = {storage}
    /\ sessionId = storage
    /\ message # << >>

(* C9: the assistant message of a send whose chat request succeeded has    *)
(* the content "No response received." if the reply field of the body is   *)
(* absent or empty, and the reply itself otherwise.                        *)
C9_ReplyOrFallback ==
    \A k \in DOMAIN requests :
        (variant = "App" /\ ChatSucceeded(requests[k].resp)) =>
            \E j \in Owned(k) :
                /\ messages[j].type = "assistant"
                /\ messages[j].content =
                      IF requests[k].resp.has /\ requests[k].resp.val # << >>
                      THEN requests[k].resp.val
                      ELSE <<"No response received.">>

C9_Witness ==
    /\ variant = "App"
    /\ Len(requests) = 2
    /\ ChatSucceeded(requests[1].resp) /\ requests[1].resp.has
    /\ requests[1].resp.val = << >>
    /\ ChatSucceeded(requests[2].resp) /\ ~requests[2].resp.has
    /\ Len(messages) = 4
    /\ messages[3].content = <<"No response received.">>
    /\ messages[4].content = <<"No response received.">>

(* C10: the messages one send appended carry the same mode tag: the        *)
(* assistant message is tagged like the user message of its send, whatever *)
(* the mode is when the reply arrives.                                     *)
C10_AssistantTaggedLikeItsSend ==
    \A k \in DOMAIN requests :
        \A i, j \in Owned(k) : messages[i].source = messages[j].source

C10_Witness ==
    /\ variant = "App"
    /\ Len(messages) = 2
    /\ messages[1].type = "user" /\ messages[1].source = "web"
    /\ messages[2].type = "assistant" /\ messages[2].source = "web"
    /\ messageType = "pdf"
    /\ Len(uploads) = 1 /\ Pending(uploads[1])

(* C11: the conversation store is append-only: in every step the message   *)
(* list before the step is a prefix of the list after it, so no message is *)
(* removed, reordered or changed once appended.                            *)
C11_StoreIsAppendOnly ==
    [][/\ Len(messages') >= Len(messages)
       /\ SubSeq(messages', 1, Len(messages)) = messages]_vars

C11_Witness ==
    /\ variant = "App"
    /\ Len(messages) = 3
    /\ \E k \in DOMAIN requests : chatTry(requests[k].resp).threw
                                   /\ ~Pending(requests[k])
    /\ lastSettled = 1
    /\ selectedFile = Null
    /\ ev.toast = ToastSendFailed

(* C12: message ids are unique: in every reachable state the messages of   *)
(* the store have pairwise distinct ids, for any sends and reply arrivals   *)
(* and any non-decreasing clock readings.                                  *)
C12_MessageIdsAreUnique ==
    \A i, j \in DOMAIN messages :
        i # j => messages[i].id # messages[j].id

(* C13: a send can be issued while an earlier request is in flight, and    *)
(* the reply of a request is appended at the end of the store in the step  *)
(* in which its response arrives, so replies stand in arrival order (the   *)
(* reply of a later send before the reply of an earlier one if it arrives  *)
(* first), while the user messages stand in send order.                    *)
C13_RepliesInArrivalOrder ==
    [][/\ \A i, j \in DOMAIN messages' :
            (i < j /\ messages'[i].type = "user" /\ messages'[j].type = "user")
                => owner'[i] < owner'[j]
       /\ \A k \in DOMAIN requests :
            (ChatSettles(k) /\ ChatSucceeded(requests'[k].resp)) =>
                /\ Len(messages') = Len(messages) + 1
                /\ SubSeq(messages', 1, Len(messages)) = messages
                /\ messages'[Len(messages')].type = "assistant"
                /\ owner'[Len(messages')] = k]_vars

C13_Witness ==
    /\ variant = "App"
    /\ Len(messages) = 4
    /\ messages[1].type = "user" /\ owner[1] = 1
    /\ messages[2].type = "user" /\ owner[2] = 2
    /\ messages[3].type = "assistant" /\ owner[3] = 2
    /\ messages[4].type = "assistant" /\ owner[4] = 1
    /\ ~isLoading

(* C14: the loading flag reflects the outstanding chat requests: it is     *)
(* true whenever at least one chat request is in flight and false when     *)
(* every issued chat request has settled.                                  *)
C14_LoadingReflectsOutstandingRequests ==
    isLoading <=> (\E k \in DOMAIN requests : Pending(requests[k]))

(* C15: when uploads overlap, then once no upload is in flight the         *)
(* attachment reference belongs to the file selected last: it is the       *)
(* reference the backend returned for that file if its upload succeeded    *)
(* and null if it failed, in whatever order the uploads completed.         *)
C15_LastSelectedUploadWins ==
    (/\ variant = "App"
     /\ uploads # << >>
     /\ \A k \in DOMAIN uploads : ~Pending(uploads[k])) =>
        LET last == uploads[Len(uploads)].resp
        IN  pdfPath = IF UploadSucceeded(last) THEN last.pdf_path ELSE Null

(* C16: Remove clears the displayed file and nothing else: the attachment  *)
(* reference is unchanged, so with a reference set the send button stays   *)
(* enabled for blank text, and a send made while no file is displayed      *)
(* still carries the pdf_path of the upload that succeeded last.           *)
C16_RemoveKeepsAttachmentReference ==
    [][variant = "App" =>
          /\ (selectedFile # Null /\ selectedFile' = Null) =>
                /\ pdfPath' = pdfPath
                /\ UNCHANGED <<message, messages, messageType, isLoading,
                               requests, uploads>>
                /\ pdfPath # Null =>
                      \A t \in Texts : IsBlank(t) => ~sendDisabled(t, pdfPath')
          /\ (/\ SendStep
              /\ selectedFile = Null
              /\ lastSettled # 0
              /\ UploadSucceeded(uploads[lastSettled].resp)) =>
                /\ Len(ev'.body) = 3
                /\ ev'.body[3] = <<"pdf_path", uploads[lastSettled].resp.pdf_path>>]_vars

C16_Witness ==
    /\ variant = "App"
    /\ selectedFile = Null
    /\ pdfPath = "/tmp/def456.pdf"
    /\ ev.op = "sendMessage"
    /\ ev.body = << <<"session_id", "uuid-1">>,
                    <<"User_message", << >> >>,
                    <<"pdf_path", "/tmp/def456.pdf">> >>
    /\ Len(messages) = 1
    /\ messages[1].content = << >>

====
